---- MODULE Spec2Model ----
(***************************************************************************)
(* A model of odak.learn.wave.propagator (src/odak/learn/wave/              *)
(* propagators.py): the lazily filled kernel cache, the forward and the    *)
(* back-and-forth kernel strategies, the propagation pipeline and the      *)
(* setters.                                                                *)
(*                                                                         *)
(* Tensors are held as a shape and one complex sample: [shape, amp, ph],   *)
(* the amplitude and the phase (an integer modulo PhaseMod) of one         *)
(* spectral component.  An elementwise product multiplies amplitudes and   *)
(* adds phases.  Lengths (distances, offsets) are integer numerators over  *)
(* the common denominator Den(number_of_depth_layers), which makes         *)
(* torch.linspace exact.                                                   *)
(***************************************************************************)
EXTENDS Integers, Sequences, FiniteSets, TLC

\* ---------------------------------------------------------------- bounds
MaxDepthLayers == 2      \* number_of_depth_layers ranges over 1..MaxDepthLayers
MaxCacheSlots == 4       \* instances have at most this many (depth, channel) slots
MaxFailedStores == 1     \* calls that fail at the store into the cache, per run
MaxCallsPerCaller == 2   \* calls each concurrent caller makes (SpecRace)
PhaseMod == 101          \* phases are integers modulo PhaseMod

\* ------------------------------------------------- constructor arguments
PropagatorTypes == {"forward", "back and forth", "sideways"}
ResolutionFactors == {1, 2}
VolumeDepths == {2}
ImageLocationOffsets == {2}
WavelengthLists == {<<5>>, <<5, 7>>}
resolution == <<1, 2>>
number_of_frames == 1
zero_mode_distance == 3    \* back_and_forth_distance, in the unit of VolumeDepths

VARIABLES
    propagator_type,          \* self.propagator_type
    resolution_factor,        \* self.resolution_factor
    number_of_depth_layers,   \* self.number_of_depth_layers
    wavelengths,              \* self.wavelengths
    volume_depth,             \* self.volume_depth
    image_location_offset,    \* self.image_location_offset
    distances,                \* self.distances
    generated_kernels,        \* self.generated_kernels[depth][channel]
    kernels,                  \* self.kernels[depth][channel]
    aperture,                 \* self.aperture
    channel_power,            \* self.channel_power
    gen_calls,                \* history: get_propagation_kernel calls per slot
    failed_stores,            \* history: calls that failed at the store, per slot
    first_H,                  \* history: the H of the call that filled the slot
    last,                     \* the last operation, its arguments and its outcome
    use_lock,                 \* SpecRace: callers hold an external lock
    lock,                     \* SpecRace: the caller holding the lock, or 0
    pc,                       \* SpecRace: each caller's position in __call__
    loc                       \* SpecRace: each caller's arguments and locals

config == <<propagator_type, resolution_factor, number_of_depth_layers,
            wavelengths, volume_depth, image_location_offset>>
cache == <<generated_kernels, kernels>>
history == <<gen_calls, failed_stores, first_H>>
race == <<use_lock, lock, pc, loc>>
vars == <<config, distances, cache, aperture, channel_power, history, last, race>>

number_of_channels == Len(wavelengths)

\* ------------------------------------------------------------ tensors
Tensor(shape, amp, ph) == [shape |-> shape, amp |-> amp, ph |-> ph]
NoTensor == Tensor(<<0, 0>>, 0, 0)

\* torch broadcasting of two 2-D shapes
Broadcastable(s, t) == \A i \in 1..2 : s[i] = t[i] \/ s[i] = 1 \/ t[i] = 1
BroadcastShape(s, t) == [i \in 1..2 |-> IF s[i] = 1 THEN t[i] ELSE s[i]]

\* a * b, elementwise, for broadcastable shapes
Mul(a, b) ==
    LET amp == a.amp * b.amp
    IN  Tensor(BroadcastShape(a.shape, b.shape), amp,
               IF amp = 0 THEN 0 ELSE (a.ph + b.ph) % PhaseMod)

\* odak.learn.tools.zero_pad: twice the size on both axes, the content centred
zero_pad(t) == Tensor(<<2 * t.shape[1], 2 * t.shape[2]>>, t.amp, t.ph)

\* odak.learn.tools.crop_center: the centred half on both axes
crop_center(t) == Tensor(<<t.shape[1] \div 2, t.shape[2] \div 2>>, t.amp, t.ph)

\* odak.learn.tools.circular_binary_mask(rows, cols, radius), sampled at
\* distance 1 from the centre
circular_binary_mask(rows, cols, radius) ==
    Tensor(<<rows, cols>>, IF 1 < radius THEN 1 ELSE 0, 0)

\* odak.learn.wave.get_propagation_kernel: a unit-modulus transfer function
\* of shape (nu, nv) whose phase grows with wavelength and distance
get_propagation_kernel(nu, nv, wavelength, distance, scale) ==
    Tensor(<<nu, nv>>, 1, (wavelength * distance) % PhaseMod)

\* ------------------------------------------------------------ lengths
Den(layers) == 2 * (IF layers = 1 THEN 1 ELSE layers - 1)
Length(x) == x * Den(number_of_depth_layers)

\* torch.linspace(start, end, steps): steps = 1 yields start alone
linspace_midpoint(start, end, steps) ==
    [i \in 1..steps |->
        IF steps = 1 THEN (start + end) \div 2
        ELSE start + ((i - 1) * (end - start)) \div (steps - 1)]
linspace(start, end, steps) ==
    [i \in 1..steps |->
        IF steps = 1 THEN start
        ELSE start + ((i - 1) * (end - start)) \div (steps - 1)]

\* propagator.init_distances
init_distances(depth, offset, layers) ==
    LET half == (depth * Den(layers)) \div 2
        line == linspace(-half, half, layers)
    IN  [i \in 1..layers |-> line[i] + offset * Den(layers)]

\* ------------------------------------------------------------ the cache
SlotShape == <<resolution[1] * resolution_factor * 2,
               resolution[2] * resolution_factor * 2>>

Slots == (1..number_of_depth_layers) \X (1..number_of_channels)

\* propagator.init_kernels
init_generated_kernels(layers, channels) ==
    [d \in 1..layers |-> [c \in 1..channels |-> FALSE]]
init_kernels(layers, channels, factor) ==
    [d \in 1..layers |-> [c \in 1..channels |->
        Tensor(<<resolution[1] * factor * 2, resolution[2] * factor * 2>>, 0, 0)]]

\* propagator.init_channel_power: torch.eye(frames, channels)
init_channel_power(channels) ==
    [f \in 1..number_of_frames |-> [c \in 1..channels |-> IF f = c THEN 1 ELSE 0]]

\* the aperture set_aperture stores
default_aperture_size ==
    IF resolution[1] * resolution_factor >= resolution[2] * resolution_factor
    THEN resolution[1] * resolution_factor
    ELSE resolution[2] * resolution_factor
new_aperture(given, mask, aperture_size) ==
    IF ~given
    THEN circular_binary_mask(resolution[1] * resolution_factor * 2,
                              resolution[2] * resolution_factor * 2,
                              IF aperture_size = 0 THEN default_aperture_size
                              ELSE aperture_size)
    ELSE zero_pad(mask)

\* ------------------------------------------------------------ indexing
\* an index torch and Python lists accept: -n .. n-1
InRangeNonNegative(i, n) == 0 <= i /\ i < n
InRange(i, n) == -n <= i /\ i < n
\* the 1-based position an accepted index addresses
Index(i, n) == IF i >= 0 THEN i + 1 ELSE n + i + 1

\* ------------------------------------------------------------ __call__
KnownTypes == {"forward", "back and forth"}
Legs == IF propagator_type = "forward" THEN 1
        ELSE IF propagator_type = "back and forth" THEN 2 ELSE 0

\* line 255: if not self.generated_kernels[depth_id, channel_id]
CacheMissAlways(d, c) == TRUE
CacheMiss(d, c) == ~generated_kernels[d][c]

\* nu and nv of a kernel request
KernelRowsScaled(field) == field.shape[1] * 2 * resolution_factor
KernelRows(field) == field.shape[1] * 2
KernelCols(field) == field.shape[2] * 2

distance_back_plus(distance) ==
    -(Length(zero_mode_distance) + Length(image_location_offset) + distance)
distance_back(distance) ==
    -(Length(zero_mode_distance) + Length(image_location_offset) - distance)

Request(field, c, distance) ==
    [nu |-> KernelRows(field), nv |-> KernelCols(field),
     wavelength |-> wavelengths[c], distance |-> distance,
     scale |-> resolution_factor]

\* the get_propagation_kernel calls of a miss, in order
KernelRequestsAsForward(field, d, c) == <<Request(field, c, distances[d])>>
KernelRequests(field, d, c) ==
    IF propagator_type = "forward"
    THEN <<Request(field, c, distances[d])>>
    ELSE IF propagator_type = "back and forth"
    THEN <<Request(field, c, Length(zero_mode_distance)),
           Request(field, c, distance_back(distances[d]))>>
    ELSE <<>>

Generate(r) == get_propagation_kernel(r.nu, r.nv, r.wavelength, r.distance, r.scale)

\* H of a miss, from the kernels its requests returned
Compose(reqs) ==
    IF Len(reqs) = 1 THEN Generate(reqs[1])
    ELSE IF Len(reqs) = 2 THEN Mul(Generate(reqs[1]), Generate(reqs[2]))
    ELSE NoTensor

\* self.kernels[depth_id, channel_id] = H: H is expanded to the slot
CanStore(H) == \A i \in 1..2 : H.shape[i] = SlotShape[i] \/ H.shape[i] = 1
StoredKernelsFirstLayer(d, c, H) ==
    [kernels EXCEPT ![1][c] = Tensor(SlotShape, H.amp, H.ph)]
StoredKernels(d, c, H) ==
    [kernels EXCEPT ![d][c] = Tensor(SlotShape, H.amp, H.ph)]

\* H = self.kernels[depth_id, channel_id].detach().clone()
CachedKernelFirstLayer(d, c) == kernels[1][c]
CachedKernel(d, c) == kernels[d][c]

\* propagator.propagate
field_padded(field) == zero_pad(field)
CanMultiply(field, H) ==
    /\ Broadcastable(H.shape, aperture.shape)
    /\ Broadcastable(BroadcastShape(H.shape, aperture.shape), field_padded(field).shape)
U2WithoutAperture(field, H) == Mul(H, field_padded(field))
U2(field, H) == Mul(Mul(H, aperture), field_padded(field))
propagate(field, H) == crop_center(U2(field, H))

\* what one __call__ does, as a record
CallOutcome(input_field, channel_id, depth_id) ==
    LET blank == [status |-> "IndexError", d |-> 1, c |-> 1, hit |-> FALSE,
                  requests |-> <<>>, H |-> NoTensor, stored |-> FALSE,
                  padded |-> <<0, 0>>, out |-> NoTensor]
    IN
    IF ~InRange(depth_id, number_of_depth_layers) THEN blank
    ELSE IF ~InRange(channel_id, number_of_channels) THEN blank
    ELSE
      LET d == Index(depth_id, number_of_depth_layers)
          c == Index(channel_id, number_of_channels)
          at == [blank EXCEPT !.d = d, !.c = c]
      IN
      IF CacheMiss(d, c)
      THEN
        LET reqs == KernelRequests(input_field, d, c)
            H == Compose(reqs)
            made == [at EXCEPT !.requests = reqs]
        IN
        IF Len(reqs) = 0
        THEN [made EXCEPT !.status = "UnboundLocalError"]
        ELSE IF ~CanStore(H)
        THEN [made EXCEPT !.status = "ShapeMismatch at store"]
        ELSE IF ~CanMultiply(input_field, H)
        THEN [made EXCEPT !.status = "ShapeMismatch at multiply", !.H = H,
                          !.stored = TRUE, !.padded = field_padded(input_field).shape]
        ELSE [made EXCEPT !.status = "ok", !.H = H, !.stored = TRUE,
                          !.padded = field_padded(input_field).shape,
                          !.out = propagate(input_field, H)]
      ELSE
        LET H == CachedKernel(d, c)
            found == [at EXCEPT !.hit = TRUE, !.H = H,
                                !.padded = field_padded(input_field).shape]
        IN
        IF ~CanMultiply(input_field, H)
        THEN [found EXCEPT !.status = "ShapeMismatch at multiply"]
        ELSE [found EXCEPT !.status = "ok", !.out = propagate(input_field, H)]

\* ------------------------------------------------------------ inputs
FieldShapes == {<<resolution[1] * k, resolution[2] * k>> : k \in ResolutionFactors}
ValidShape == <<resolution[1] * resolution_factor, resolution[2] * resolution_factor>>
Fields == {Tensor(s, 1, 0) : s \in FieldShapes}
\* Spec: the indices 0 .. n, the last one out of range
ChannelIds == 0 .. number_of_channels
DepthIds == 0 .. number_of_depth_layers
\* SpecIndex: every index from -(n+1) to n
AllChannelIds == -(number_of_channels + 1) .. number_of_channels
AllDepthIds == -(number_of_depth_layers + 1) .. number_of_depth_layers
\* an amplitude mask at the resolution of the hologram
Masks == {Tensor(resolution, 2, 0)}
ApertureSizes == {0}         \* 0 stands for None
LaserPowers == {[f \in 1..number_of_frames |-> [c \in 1..number_of_channels |-> 1]]}

NoCall == [op |-> "init", field |-> NoTensor, channel_id |-> 0, depth_id |-> 0,
           status |-> "ok", d |-> 1, c |-> 1, hit |-> FALSE, requests |-> <<>>,
           H |-> NoTensor, stored |-> FALSE, padded |-> <<0, 0>>, out |-> NoTensor]

TotalFailedStores ==
    LET RECURSIVE Sum(_)
        Sum(S) == IF S = {} THEN 0
                  ELSE LET s == CHOOSE x \in S : TRUE
                       IN  failed_stores[s[1]][s[2]] + Sum(S \ {s})
    IN  Sum(Slots)

\* ------------------------------------------------------------ Init
Callers == {1, 2}

InitInstance ==
    /\ propagator_type \in PropagatorTypes
    /\ resolution_factor \in ResolutionFactors
    /\ number_of_depth_layers \in 1..MaxDepthLayers
    /\ wavelengths \in WavelengthLists
    /\ number_of_depth_layers * Len(wavelengths) <= MaxCacheSlots
    /\ volume_depth \in VolumeDepths
    /\ image_location_offset \in ImageLocationOffsets
    /\ distances = init_distances(volume_depth, image_location_offset,
                                  number_of_depth_layers)
    /\ generated_kernels = init_generated_kernels(number_of_depth_layers, Len(wavelengths))
    /\ kernels = init_kernels(number_of_depth_layers, Len(wavelengths), resolution_factor)
    /\ channel_power = init_channel_power(Len(wavelengths))
    /\ aperture = new_aperture(FALSE, NoTensor, 0)
    /\ gen_calls = [d \in 1..number_of_depth_layers |-> [c \in 1..Len(wavelengths) |-> 0]]
    /\ failed_stores = [d \in 1..number_of_depth_layers |-> [c \in 1..Len(wavelengths) |-> 0]]
    /\ first_H = [d \in 1..number_of_depth_layers |-> [c \in 1..Len(wavelengths) |-> NoTensor]]
    /\ last = NoCall
    /\ lock = 0
    /\ pc = [t \in Callers |-> "idle"]
    /\ loc = [t \in Callers |-> [channel_id |-> 0, depth_id |-> 0, H |-> NoTensor,
                                 miss |-> FALSE, calls |-> 0]]

Init ==
    /\ InitInstance
    /\ use_lock = FALSE

\* ------------------------------------------------------------ operations
\* propagator.__call__(input_field, channel_id, depth_id), run to its end
call(input_field, channel_id, depth_id) ==
    \E o \in {CallOutcome(input_field, channel_id, depth_id)} :
    LET n == Len(o.requests)
    IN
    /\ o.status = "ShapeMismatch at store" => TotalFailedStores < MaxFailedStores
    /\ kernels' = IF o.stored THEN StoredKernels(o.d, o.c, o.H) ELSE kernels
    /\ generated_kernels' = IF o.stored
                            THEN [generated_kernels EXCEPT ![o.d][o.c] = TRUE]
                            ELSE generated_kernels
    /\ gen_calls' = [gen_calls EXCEPT ![o.d][o.c] = @ + n]
    /\ failed_stores' = IF o.status = "ShapeMismatch at store"
                        THEN [failed_stores EXCEPT ![o.d][o.c] = @ + 1]
                        ELSE failed_stores
    /\ first_H' = IF o.stored THEN [first_H EXCEPT ![o.d][o.c] = o.H] ELSE first_H
    /\ last' = [op |-> "call", field |-> input_field, channel_id |-> channel_id,
                depth_id |-> depth_id, status |-> o.status, d |-> o.d, c |-> o.c,
                hit |-> o.hit, requests |-> o.requests, H |-> o.H,
                stored |-> o.stored, padded |-> o.padded, out |-> o.out]
    /\ UNCHANGED <<config, distances, aperture, channel_power, race>>

\* propagator.set_aperture(aperture, aperture_size)
set_aperture(given, mask, aperture_size) ==
    /\ aperture' = new_aperture(given, mask, aperture_size)
    /\ last' = [NoCall EXCEPT !.op = "set_aperture"]
    /\ UNCHANGED <<config, distances, cache, channel_power, history, race>>

\* propagator.set_laser_powers(laser_power)
set_laser_powers(laser_power) ==
    /\ channel_power' = laser_power
    /\ last' = [NoCall EXCEPT !.op = "set_laser_powers"]
    /\ UNCHANGED <<config, distances, cache, aperture, history, race>>

\* propagator.get_kernels(): reads self.kernels, writes nothing
get_kernels ==
    /\ last' = [NoCall EXCEPT !.op = "get_kernels"]
    /\ UNCHANGED <<config, distances, cache, aperture, channel_power, history, race>>

Next ==
    \/ \E f \in Fields, c \in ChannelIds, d \in DepthIds : call(f, c, d)
    \/ \E m \in Masks : set_aperture(TRUE, m, 0)
    \/ \E s \in ApertureSizes : set_aperture(FALSE, NoTensor, s)
    \/ \E p \in LaserPowers : set_laser_powers(p)
    \/ get_kernels

Spec == Init /\ [][Next]_vars

\* ------------------------------------------------------------ SpecIndex
\* __call__ with every index from -(n+1) to n, on fields of the slots' shape
NextIndex ==
    \E c \in AllChannelIds, d \in AllDepthIds : call(Tensor(ValidShape, 1, 0), c, d)

SpecIndex == Init /\ [][NextIndex]_vars

\* ------------------------------------------------------------ SpecRace
\* Two callers run __call__ on one instance with no synchronisation of
\* their own: each line of __call__ that reads or writes the cache is a step.
\* With use_lock a caller takes an external lock before line 254 and gives it
\* back when __call__ returns or raises.
RaceField == Tensor(ValidShape, 1, 0)

InitRace ==
    /\ InitInstance
    /\ resolution_factor = 1
    /\ use_lock \in BOOLEAN

Release(t) == IF use_lock /\ lock = t THEN 0 ELSE lock

\* the caller enters __call__ (line 254: distance = self.distances[depth_id])
r_enter(t, channel_id, depth_id) ==
    /\ pc[t] = "idle"
    /\ loc[t].calls < MaxCallsPerCaller
    /\ use_lock => lock = 0
    /\ lock' = IF use_lock THEN t ELSE lock
    /\ pc' = [pc EXCEPT ![t] = "check"]
    /\ loc' = [loc EXCEPT ![t] = [channel_id |-> channel_id, depth_id |-> depth_id,
                                  H |-> NoTensor, miss |-> FALSE, calls |-> @.calls + 1]]
    /\ UNCHANGED <<config, distances, cache, aperture, channel_power, history, last, use_lock>>

\* line 255: the flag is read
r_check(t) ==
    LET d == Index(loc[t].depth_id, number_of_depth_layers)
        c == Index(loc[t].channel_id, number_of_channels)
    IN
    /\ pc[t] = "check"
    /\ IF CacheMiss(d, c)
       THEN /\ pc' = [pc EXCEPT ![t] = "generate"]
            /\ loc' = [loc EXCEPT ![t].miss = TRUE]
       ELSE /\ pc' = [pc EXCEPT ![t] = "propagate"]
            /\ loc' = [loc EXCEPT ![t].H = CachedKernel(d, c)]
    /\ UNCHANGED <<config, distances, cache, aperture, channel_power, history, last,
                   use_lock, lock>>

\* lines 256-289: the kernel is generated, one or two get_propagation_kernel calls
r_generate(t) ==
    LET d == Index(loc[t].depth_id, number_of_depth_layers)
        c == Index(loc[t].channel_id, number_of_channels)
    IN
    /\ pc[t] = "generate"
    /\ \E reqs \in {KernelRequests(RaceField, d, c)} :
          /\ gen_calls' = [gen_calls EXCEPT ![d][c] = @ + Len(reqs)]
          /\ loc' = [loc EXCEPT ![t].H = Compose(reqs)]
    /\ pc' = [pc EXCEPT ![t] = "store"]
    /\ UNCHANGED <<config, distances, cache, aperture, channel_power, failed_stores,
                   first_H, last, use_lock, lock>>

\* line 290: self.kernels[depth_id, channel_id] = H; an unknown propagator
\* type has bound no H and the call ends here
r_store(t) ==
    LET d == Index(loc[t].depth_id, number_of_depth_layers)
        c == Index(loc[t].channel_id, number_of_channels)
    IN
    /\ pc[t] = "store"
    /\ IF propagator_type \in KnownTypes
       THEN /\ kernels' = StoredKernels(d, c, loc[t].H)
            /\ pc' = [pc EXCEPT ![t] = "flag"]
            /\ lock' = lock
       ELSE /\ kernels' = kernels
            /\ pc' = [pc EXCEPT ![t] = "idle"]
            /\ lock' = Release(t)
    /\ UNCHANGED <<config, distances, generated_kernels, aperture, channel_power,
                   history, last, use_lock, loc>>

\* line 291: self.generated_kernels[depth_id, channel_id] = True
r_flag(t) ==
    LET d == Index(loc[t].depth_id, number_of_depth_layers)
        c == Index(loc[t].channel_id, number_of_channels)
    IN
    /\ pc[t] = "flag"
    /\ generated_kernels' = [generated_kernels EXCEPT ![d][c] = TRUE]
    /\ pc' = [pc EXCEPT ![t] = "propagate"]
    /\ UNCHANGED <<config, distances, kernels, aperture, channel_power, history, last,
                   use_lock, lock, loc>>

\* lines 294-295: propagate and return
r_propagate(t) ==
    /\ pc[t] = "propagate"
    /\ pc' = [pc EXCEPT ![t] = "idle"]
    /\ lock' = Release(t)
    /\ UNCHANGED <<config, distances, cache, aperture, channel_power, history, last,
                   use_lock, loc>>

NextRace ==
    \E t \in Callers :
        \/ \E c \in 0 .. (number_of_channels - 1), d \in 0 .. (number_of_depth_layers - 1) :
              r_enter(t, c, d)
        \/ r_check(t)
        \/ r_generate(t)
        \/ r_store(t)
        \/ r_flag(t)
        \/ r_propagate(t)

SpecRace == InitRace /\ [][NextRace]_vars

\* ------------------------------------------------------------ the claims
IsCall == last.op = "call"
Propagated == IsCall /\ last.status \in {"ok", "ShapeMismatch at multiply"}
Bit(b) == IF b THEN 1 ELSE 0

\* the field propagate returns for a field, a kernel and an aperture
ExpectedOut(field, H, ap) ==
    LET amp == H.amp * ap.amp * field.amp
    IN  Tensor(field.shape, amp,
               IF amp = 0 THEN 0 ELSE (H.ph + ap.ph + field.ph) % PhaseMod)

\* the kernel a slot holds once it is filled
ExpectedKernel(d, c) ==
    IF propagator_type = "forward"
    THEN get_propagation_kernel(SlotShape[1], SlotShape[2], wavelengths[c],
                                distances[d], resolution_factor)
    ELSE Mul(get_propagation_kernel(SlotShape[1], SlotShape[2], wavelengths[c],
                                    zero_mode_distance * Den(number_of_depth_layers),
                                    resolution_factor),
             get_propagation_kernel(SlotShape[1], SlotShape[2], wavelengths[c],
                                    -(zero_mode_distance * Den(number_of_depth_layers)
                                      + image_location_offset * Den(number_of_depth_layers)
                                      - distances[d]),
                                    resolution_factor))

\* C1, as stated: get_propagation_kernel is invoked at most once per (depth,
\* channel) pair for "forward" and at most twice for "back and forth", over
\* any sequence of calls, and a call that finds the flag set invokes it zero
\* times.
C1_CacheOnce ==
    /\ \A s \in Slots : gen_calls[s[1]][s[2]] <= Legs
    /\ IsCall /\ last.hit => last.requests = <<>>

\* C1, amended: the call that fills a slot invokes get_propagation_kernel
\* once ("forward") or twice ("back and forth"), every call that fails at the
\* store invokes it as often again, and no other call invokes it; a call
\* fails at the store only on a miss with a field that has not the shape
\* (H * resolution_factor, W * resolution_factor); so a pair that saw no
\* failed store has at most one, or two, invocations.
C1_CacheOncePerStore ==
    /\ \A s \in Slots :
          /\ gen_calls[s[1]][s[2]] =
                Legs * (Bit(generated_kernels[s[1]][s[2]]) + failed_stores[s[1]][s[2]])
          /\ failed_stores[s[1]][s[2]] = 0 => gen_calls[s[1]][s[2]] <= Legs
    /\ IsCall /\ last.hit => last.requests = <<>>
    /\ IsCall /\ ~last.hit /\ last.status \notin {"IndexError", "UnboundLocalError"}
          => Len(last.requests) = Legs
    /\ IsCall /\ last.status = "ShapeMismatch at store"
          => ~last.hit /\ last.field.shape # ValidShape
    /\ IsCall /\ ~last.hit /\ last.field.shape = ValidShape
          /\ last.status \notin {"IndexError", "UnboundLocalError"}
          => last.stored

\* a hit on a slot that was filled after a call on it had failed at the store
C1_Witness ==
    /\ IsCall /\ last.hit
    /\ failed_stores[last.d][last.c] = 1
    /\ gen_calls[last.d][last.c] = 2 * Legs

\* C2: the kernel handed to propagate on a hit is the kernel that was handed
\* to propagate by the call that filled the slot, and every call that returns
\* returns what the pipeline gives for its field, that kernel and the aperture.
C2_HitMissEquivalence ==
    Propagated =>
        /\ last.H = first_H[last.d][last.c]
        /\ last.H.amp = 1
        /\ last.status = "ok" =>
              last.out = ExpectedOut(last.field, first_H[last.d][last.c], aperture)

C2_Witness ==
    /\ IsCall /\ last.hit /\ last.status = "ok"
    /\ last.d = 2
    /\ last.out.amp > 0

\* C3: with a propagator type that is neither "forward" nor "back and forth"
\* every call fails, no flag is ever set and no kernel is ever generated or
\* stored.
C3_UnknownType ==
    propagator_type \notin KnownTypes =>
        /\ IsCall => /\ last.status \in {"IndexError", "UnboundLocalError"}
                     /\ last.out = NoTensor
                     /\ ~last.stored
        /\ \A s \in Slots : /\ ~generated_kernels[s[1]][s[2]]
                            /\ gen_calls[s[1]][s[2]] = 0
                            /\ kernels[s[1]][s[2]] = Tensor(SlotShape, 0, 0)

C3_Witness ==
    /\ propagator_type = "sideways"
    /\ IsCall /\ last.status = "UnboundLocalError"

\* C4, as stated: every channel_id outside 0..number_of_channels-1 and every
\* depth_id outside 0..number_of_depth_layers-1 fails with an index error,
\* generates no kernel and stores nothing.
C4_IndexRange ==
    IsCall /\ (last.channel_id \notin 0 .. (number_of_channels - 1)
               \/ last.depth_id \notin 0 .. (number_of_depth_layers - 1))
        => /\ last.status = "IndexError"
           /\ last.requests = <<>>
           /\ ~last.stored

\* C4, amended: a call fails with an index error exactly when channel_id is
\* outside -number_of_channels..number_of_channels-1 or depth_id is outside
\* -number_of_depth_layers..number_of_depth_layers-1; it then generates no
\* kernel and leaves kernels and generated_kernels unchanged; a negative index
\* -k within the range addresses the slot n-k.
C4_IndexRangeWrapped ==
    /\ [](IsCall =>
            /\ last.status = "IndexError" <=>
                  (\/ last.channel_id < -number_of_channels
                   \/ last.channel_id >= number_of_channels
                   \/ last.depth_id < -number_of_depth_layers
                   \/ last.depth_id >= number_of_depth_layers)
            /\ last.status = "IndexError" =>
                  last.requests = <<>> /\ ~last.stored /\ last.H = NoTensor
            /\ last.status # "IndexError" =>
                  /\ last.d = IF last.depth_id < 0
                              THEN number_of_depth_layers + last.depth_id + 1
                              ELSE last.depth_id + 1
                  /\ last.c = IF last.channel_id < 0
                              THEN number_of_channels + last.channel_id + 1
                              ELSE last.channel_id + 1)
    /\ [][last'.op = "call" /\ last'.status = "IndexError"
             => UNCHANGED <<kernels, generated_kernels, gen_calls>>]_vars

\* an index error on an instance whose cache holds a kernel, after a call
\* with a negative index had filled a slot
C4_Witness ==
    /\ IsCall /\ last.status = "IndexError"
    /\ last.channel_id >= number_of_channels
    /\ \E s \in Slots : generated_kernels[s[1]][s[2]]

\* C5, as stated: for a field of the configured resolution (H, W) the call
\* returns a field of shape (H, W), and the padded field, the requested
\* kernel, the cache slot and the aperture all have the shape
\* (2*H*resolution_factor, 2*W*resolution_factor), for every resolution_factor.
C5_ShapeInvariance ==
    IsCall /\ last.field.shape = resolution
           /\ last.status \notin {"IndexError", "UnboundLocalError"}
        => /\ last.status = "ok"
           /\ last.out.shape = resolution
           /\ last.padded = SlotShape
           /\ \A i \in 1..Len(last.requests) :
                 <<last.requests[i].nu, last.requests[i].nv>> = SlotShape
           /\ kernels[last.d][last.c].shape = SlotShape
           /\ aperture.shape = SlotShape

\* C5, amended: a call with valid indices and a known propagator type returns
\* exactly when the field has the shape (H*resolution_factor,
\* W*resolution_factor) and the aperture the shape of the cache slots; it
\* then returns a field of the field's shape, and the padded field, the
\* requested kernels, the kernel handed to propagate, the cache slot and the
\* aperture all have the shape (2*H*resolution_factor, 2*W*resolution_factor);
\* otherwise it fails with a shape mismatch, at the store on a miss with
\* another field shape and at the multiply in the other cases.
C5_ShapeInvarianceScaled ==
    IsCall /\ last.status \notin {"IndexError", "UnboundLocalError"} =>
        /\ last.status = "ok" <=>
              (last.field.shape = ValidShape /\ aperture.shape = SlotShape)
        /\ last.status = "ok" =>
              /\ last.out.shape = ValidShape
              /\ last.padded = SlotShape
              /\ last.H.shape = SlotShape
              /\ \A i \in 1..Len(last.requests) :
                    /\ <<last.requests[i].nu, last.requests[i].nv>> = SlotShape
                    /\ last.requests[i].scale = resolution_factor
              /\ kernels[last.d][last.c].shape = SlotShape
        /\ last.status # "ok" =>
              /\ last.out = NoTensor
              /\ last.status = "ShapeMismatch at store" <=>
                    (~last.hit /\ last.field.shape # ValidShape)
              /\ last.status = "ShapeMismatch at multiply" <=>
                    (last.hit \/ last.field.shape = ValidShape)

C5_Witness ==
    /\ resolution_factor = 2
    /\ IsCall /\ last.status = "ok" /\ ~last.hit
    /\ last.field.shape = <<2 * resolution[1], 2 * resolution[2]>>

\* C6: a filled slot holds, for "back and forth", the elementwise product of
\* the kernel at zero_mode_distance and the kernel at -(zero_mode_distance +
\* image_location_offset - distances[depth_id]), both for
\* wavelengths[channel_id], and for "forward" the kernel at
\* distances[depth_id]; that is also the kernel its first call used.
C6_Decomposition ==
    \A s \in Slots :
        generated_kernels[s[1]][s[2]] =>
            /\ kernels[s[1]][s[2]] = ExpectedKernel(s[1], s[2])
            /\ first_H[s[1]][s[2]] = ExpectedKernel(s[1], s[2])

C6_Witness ==
    /\ propagator_type = "back and forth"
    /\ number_of_depth_layers = 2 /\ number_of_channels = 2
    /\ generated_kernels[2][2] /\ generated_kernels[1][1]
    /\ kernels[2][2] # kernels[1][1]

\* C7: set_aperture changes the aperture alone, and a call on a filled slot
\* makes no generator call and multiplies the cached kernel, unchanged since
\* it was stored, by the aperture that is set.
C7_SetApertureFrame ==
    /\ [](IsCall /\ last.hit =>
            /\ last.requests = <<>>
            /\ last.H = kernels[last.d][last.c]
            /\ kernels[last.d][last.c] = first_H[last.d][last.c]
            /\ last.status = "ok" =>
                  /\ last.out.amp = kernels[last.d][last.c].amp * aperture.amp * last.field.amp
                  /\ last.out.ph = (kernels[last.d][last.c].ph + last.field.ph) % PhaseMod)
    /\ [][last'.op = "set_aperture"
             => UNCHANGED <<kernels, generated_kernels, distances, channel_power,
                            gen_calls>>]_vars

\* a hit under an aperture that is not the one of construction
C7_Witness ==
    /\ IsCall /\ last.hit /\ last.status = "ok"
    /\ aperture # new_aperture(FALSE, NoTensor, 0)
    /\ last.out.amp = 2

\* C8: no flag is set after construction; a flag that is set stays set and
\* its kernel is never changed, whatever operation follows; a filled slot
\* holds a kernel, not the zeros of construction.
C8_CacheMonotonic ==
    /\ [](last.op = "init" =>
            \A s \in Slots : ~generated_kernels[s[1]][s[2]])
    /\ [](\A s \in Slots : generated_kernels[s[1]][s[2]] => kernels[s[1]][s[2]].amp = 1)
    /\ [][\A s \in Slots :
             generated_kernels[s[1]][s[2]] =>
                /\ generated_kernels'[s[1]][s[2]]
                /\ kernels'[s[1]][s[2]] = kernels[s[1]][s[2]]]_vars

\* a call on one pair has failed while another pair is filled
C8_Witness ==
    /\ IsCall /\ last.status = "ShapeMismatch at store"
    /\ \E s \in Slots : s # <<last.d, last.c>> /\ generated_kernels[s[1]][s[2]]

C10_DepthSchedule ==
    LET n == number_of_depth_layers
        half == (volume_depth * Den(n)) \div 2
        off == image_location_offset * Den(n)
    IN  /\ Len(distances) = n
        /\ distances[1] = off - half
        /\ distances[n] = off + half
        /\ \A i \in 1..n : distances[i] + distances[n + 1 - i] = 2 * off
        /\ \A i \in 1..(n - 1) : distances[i] <= distances[i + 1]

\* C10, amended: distances has number_of_depth_layers entries, starts at
\* image_location_offset - volume_depth/2 and is non-decreasing; with two or
\* more layers it ends at image_location_offset + volume_depth/2, is evenly
\* spaced and centred on image_location_offset; with one layer its only
\* entry is image_location_offset - volume_depth/2; no operation changes it.
C10_DepthScheduleLinspace ==
    LET n == number_of_depth_layers
        half == (volume_depth * Den(n)) \div 2
        off == image_location_offset * Den(n)
    IN  /\ Len(distances) = n
        /\ distances[1] = off - half
        /\ n >= 2 =>
              /\ distances[n] = off + half
              /\ \A i \in 1..n : distances[i] + distances[n + 1 - i] = 2 * off
              /\ \A i \in 1..(n - 1) :
                    (distances[i + 1] - distances[i]) * (n - 1) = 2 * half
        /\ \A i \in 1..(n - 1) : distances[i] <= distances[i + 1]

\* the single layer of a one-layer instance, after operations on it
C10_Witness ==
    /\ number_of_depth_layers = 1
    /\ distances[1] = (image_location_offset - 1) * 2
    /\ volume_depth = 2
    /\ last.op = "set_aperture"
    /\ generated_kernels[1][1]
====
